---- MODULE Spec2Model ----
(***************************************************************************)
(* State-machine model of movie_showtimes_console.py: the daily cache,     *)
(* load_entries_for_today / fetch_all, group_movies_by_theater and the     *)
(* rotation loop of run_display, with main's exception handlers.           *)
(***************************************************************************)
EXTENDS Integers, Sequences, FiniteSets, TLC

VARIABLES
    pc,             \* position of the single thread inside main/run_display
    caller,         \* call site of load_entries_for_today: "startup" or "loop"
    today,          \* the local calendar date returned by now_in_tz (a day number)
    cacheFile,      \* content of the cache file on disk
    theaters,       \* config["theaters"]
    today_str,      \* local of load_entries_for_today
    fresh,          \* the list fetch_all is building (its local "entries")
    fi,             \* index of the theater fetch_all is at
    raw,            \* fetch_all local: the response of the last fetch_showtimes call
    normalized,     \* fetch_all local: the result of normalize_showtimes(raw)
    entries,        \* run_display local
    cache_date,     \* run_display local
    current_date,   \* run_display local: the date read at the top of the iteration
    theater_groups, \* run_display local
    theater_idx,    \* run_display local
    movie_idx,      \* run_display local
    item,           \* run_display local (the resolved item)
    lastMsg,        \* last status line printed (not the rendered frame)
    sleeping,       \* length of the time.sleep call in progress, 0 if none
    exitCode,       \* value returned by main, -1 while the process runs
    event,          \* history: what the last program step did
    loopEntered,    \* history: the while loop has been entered
    everRendered,   \* history: format_single_movie_display has completed once
    iterRendered,   \* history: it has completed in the current iteration
    iterCursor,     \* history: (theater_idx, movie_idx) at the top of the iteration
    shown,          \* history: renders since the cursor was last set to (0,0)
    clean,          \* history: no render/sleep failure since the cursor was last set to (0,0)
    fetchCalls,     \* history: fetch_showtimes calls made by the current load call
    fetchAllCalls,  \* history: fetch_all calls made by the current load call
    fetchLog,       \* history: the (theater, location) arguments of those fetch_showtimes calls
    fetchedToday    \* history: a fetch_all call has returned for the date that is still current

envVars == <<today, cacheFile, theaters>>
loadVars == <<today_str, fresh, fi, raw, normalized>>
dataVars == <<entries, cache_date, theater_groups>>
fetchHist == <<fetchCalls, fetchAllCalls, fetchLog, fetchedToday>>
cursorVars == <<theater_idx, movie_idx>>
outVars == <<lastMsg, sleeping, exitCode>>
histVars == <<loopEntered, everRendered, iterRendered, iterCursor, shown, clean, fetchHist>>
vars == <<pc, caller, envVars, loadVars, dataVars, current_date, cursorVars, item, outVars, event, histVars>>

----------------------------------------------------------------------------
(* Bounds of the model *)
MaxDay == 3
MaxMovies == 3
MaxTheaterIdx == 2

(* Program constants *)
BACKOFF == 5
DEFAULT_REFRESH == 10
MAX_TIMES == 8

cycle_delay == DEFAULT_REFRESH

MsgNothing == "No movies found to display. Check your config or cache."
MsgRefreshError == "Error refreshing daily data"
MsgEmptyRefresh == "No movies found after refresh. Retrying in 5 seconds..."
MsgDisplayError == "Error displaying movie"
MsgStopped == "Stopped by user"
MsgFatal == "Fatal error"
MsgSkip == "Skipping malformed theater entry (needs 'name' and 'location')"

----------------------------------------------------------------------------
(* Configuration: a theater entry with its keys, "" for a missing or empty value *)
TheaterA == [name |-> "A", theater |-> "", query |-> "", location |-> "X"]
TheaterB == [name |-> "", theater |-> "B", query |-> "", location |-> "Y"]
TheaterBad == [name |-> "C", theater |-> "", query |-> "", location |-> ""]
TheaterNoName == [name |-> "", theater |-> "", query |-> "", location |-> "Z"]

Configs == { <<TheaterA>>, <<TheaterNoName, TheaterA>>, <<TheaterA, TheaterBad, TheaterB>> }

----------------------------------------------------------------------------
(* JSON values of the API response, tagged with their type.  A missing key
   and null are both JMissing; JNum is a non-zero number. *)
JMissing == [k |-> "missing"]

JNum == [k |-> "num"]

JStr(s) == [k |-> "str", s |-> s]

JList(items) == [k |-> "list", items |-> items]

JTimeBlock(time, type) == [k |-> "dict", time |-> time, type |-> type]

JMovie(title, showtimes) == [k |-> "dict", title |-> title, showtimes |-> showtimes]

JTheater(name, address, movies) ==
    [k |-> "dict", theater_name |-> name, address |-> address, movies |-> movies]

(* Python truthiness, as used by the "x.get(...) or default" chains *)
JTruthy(v) ==
    CASE v.k = "missing" -> FALSE
      [] v.k = "str" -> v.s # ""
      [] v.k = "list" -> v.items # <<>>
      [] OTHER -> TRUE

(* Raw API payloads of the display loop: "showtimes" is a list of day entries *)
RawMovie(i) == JMovie("M" \o ToString(i), JMissing)

RawDay(n) == JTheater("api", "", JList([i \in 1..n |-> RawMovie(i)]))

RawPayloads ==
    { [error |-> FALSE, showtimes |-> JMissing] }
    \cup { [error |-> FALSE, showtimes |-> JList(<<RawDay(n)>>)] : n \in (MaxMovies - 1)..MaxMovies }
    \cup { [error |-> FALSE, showtimes |-> JList(<<RawDay(MaxMovies), RawDay(1)>>)] }
    \cup { [error |-> FALSE, showtimes |-> JStr("unavailable")] }
    \cup { [error |-> TRUE, showtimes |-> JMissing] }

----------------------------------------------------------------------------
(* Normalizer.  A result is the value returned, or the exception raised. *)
Ok(v) == [exc |-> "none", val |-> v]

Err(e) == [exc |-> e, val |-> <<>>]

RECURSIVE FirstExc(_)
FirstExc(rs) ==
    IF rs = <<>> THEN "none"
    ELSE IF Head(rs).exc # "none" THEN Head(rs).exc
    ELSE FirstExc(Tail(rs))

Take(s, n) == IF Len(s) <= n THEN s ELSE SubSeq(s, 1, n)

RECURSIVE Flatten(_)
Flatten(ss) == IF ss = <<>> THEN <<>> ELSE Head(ss) \o Flatten(Tail(ss))

(* lines 73-79: the strings one time block appends to "times" *)
time_strings(tb) ==
    IF tb.k = "dict"
    THEN IF tb.time # ""
         THEN << IF tb.type # "" THEN tb.time \o " (" \o tb.type \o ")" ELSE tb.time >>
         ELSE <<>>
    ELSE IF tb.k = "str" THEN <<tb.s>>
    ELSE <<>>

(* lines 70-79: "for tb in time_blocks" over a list, a string (its characters, "c"
   stands for them), an object (its keys, all strings) or a number (not iterable) *)
movie_times(time_blocks) ==
    IF ~JTruthy(time_blocks) THEN Ok(<<>>)
    ELSE IF time_blocks.k = "list"
    THEN Ok(Flatten([i \in 1..Len(time_blocks.items) |-> time_strings(time_blocks.items[i])]))
    ELSE IF time_blocks.k \in {"str", "dict"} THEN Ok(<<"c">>)
    ELSE Err("TypeError")

normalize_movie(movie) ==
    IF movie.k # "dict" THEN Err("AttributeError")
    ELSE LET t == movie_times(movie.showtimes) IN
         IF t.exc # "none" THEN Err(t.exc)
         ELSE Ok([title |-> IF movie.title # "" THEN movie.title ELSE "(title unknown)",
                  times |-> Take(t.val, MAX_TIMES)])

(* lines 60-67: the list "for movie in movies" iterates, or the exception it raises;
   a string yields its characters and an object its keys, JStr("c") stands for the first *)
movies_to_walk(movies) ==
    IF ~JTruthy(movies) THEN Ok(<<>>)
    ELSE IF movies.k = "list"
    THEN IF movies.items[1].k = "list" THEN Ok(movies.items[1].items) ELSE Ok(movies.items)
    ELSE IF movies.k \in {"str", "dict"} THEN Ok(<<JStr("c")>>)
    ELSE Err("TypeError")

normalize_entry(e) ==
    IF e.k # "dict" THEN Err("AttributeError")
    ELSE LET w == movies_to_walk(e.movies) IN
         IF w.exc # "none" THEN Err(w.exc)
         ELSE LET rows == [i \in 1..Len(w.val) |-> normalize_movie(w.val[i])] IN
              IF FirstExc(rows) # "none" THEN Err(FirstExc(rows))
              ELSE Ok([theater |-> IF e.theater_name # "" THEN e.theater_name ELSE "Unknown Theater",
                       address |-> e.address,
                       movies |-> [i \in 1..Len(rows) |-> rows[i].val]])

normalize_showtimes(payload) ==
    LET days == payload.showtimes IN
    IF ~JTruthy(days) THEN Ok(<<>>)
    ELSE IF days.k = "list"
    THEN LET r == normalize_entry(days.items[1]) IN
         IF r.exc # "none" THEN Err(r.exc) ELSE Ok(<<r.val>>)
    ELSE IF days.k = "str" THEN Err("AttributeError")
    ELSE IF days.k = "num" THEN Err("TypeError")
    ELSE Err("KeyError")

----------------------------------------------------------------------------
(* Cache Store *)
None == [kind |-> "none", date |-> -1, entries |-> <<>>]
NoFile == [kind |-> "nofile", date |-> -1, entries |-> <<>>]
Unparsable == [kind |-> "unparsable", date |-> -1, entries |-> <<>>]
NonObject == [kind |-> "nonobject", date |-> -1, entries |-> <<>>]

CacheDoc(d, e) == [kind |-> "doc", date |-> d, entries |-> e]

load_cached(file) == IF file.kind \in {"nofile", "unparsable"} THEN None ELSE file

Truthy(c) == c.kind # "none"

HasGet(c) == c.kind = "doc"


(* mutant: the date of the document is not compared *)
CacheValid_anyDate(cached, date) == Truthy(cached)

(* mutant: a document of an earlier date is accepted *)
CacheValid_olderOk(cached, date) == Truthy(cached) /\ cached.date <= date

(* mutant: the cached document is never accepted *)
CacheValid_never(cached, date) == FALSE

CacheValid(cached, date) == Truthy(cached) /\ cached.date = date

----------------------------------------------------------------------------
(* Flattener *)
RECURSIVE Concat(_)
Concat(ss) == IF ss = <<>> THEN <<>> ELSE Head(ss) \o Concat(Tail(ss))

MovieItem(entry, theater, movie, now_str) ==
    [theater_label |-> entry.theater_label,
     location_label |-> entry.location_label,
     theater_name |-> IF entry.theater_label # "" THEN entry.theater_label ELSE "Unknown Theater",
     address |-> theater.address,
     title |-> movie.title,
     times |-> movie.times,
     now_str |-> now_str]

theater_movies(entry, now_str) ==
    Concat([t \in 1..Len(entry.showtimes) |->
              [m \in 1..Len(entry.showtimes[t].movies) |->
                 MovieItem(entry, entry.showtimes[t], entry.showtimes[t].movies[m], now_str)]])

(* mutant: theaters without movies are kept as empty groups *)
group_movies_keepEmpty(es, now_str) == [i \in 1..Len(es) |-> theater_movies(es[i], now_str)]

(* mutant: a theater needs more than one movie to form a group *)
group_movies_dropSingle(es, now_str) ==
    SelectSeq([i \in 1..Len(es) |-> theater_movies(es[i], now_str)], LAMBDA g : Len(g) > 1)

group_movies_by_theater(es, now_str) ==
    SelectSeq([i \in 1..Len(es) |-> theater_movies(es[i], now_str)], LAMBDA g : g # <<>>)

----------------------------------------------------------------------------
(* Rotation cursor (indices are 0-based as in the source) *)
NoItem == [theater_label |-> "", location_label |-> "", theater_name |-> "",
           address |-> "", title |-> "", times |-> <<>>, now_str |-> -1]

ResolveItem(groups, ti, mi) ==
    LET current_theater == groups[(ti % Len(groups)) + 1]
    IN  current_theater[(mi % Len(current_theater)) + 1]

(* mutant: the wrap test is off by one *)
NextCursor_offByOne(groups, ti, mi) ==
    LET current_theater == groups[(ti % Len(groups)) + 1]
    IN  IF mi + 1 > Len(current_theater) THEN <<ti + 1, 0>> ELSE <<ti, mi + 1>>

(* mutant: moving to the next theater does not reset the movie index *)
NextCursor_noReset(groups, ti, mi) ==
    LET current_theater == groups[(ti % Len(groups)) + 1]
    IN  IF mi + 1 >= Len(current_theater) THEN <<ti + 1, mi + 1>> ELSE <<ti, mi + 1>>

(* mutant: every advance moves to the next theater *)
NextCursor_alwaysWrap(groups, ti, mi) == <<ti + 1, 0>>

NextCursor(groups, ti, mi) ==
    LET current_theater == groups[(ti % Len(groups)) + 1]
    IN  IF mi + 1 >= Len(current_theater) THEN <<ti + 1, 0>> ELSE <<ti, mi + 1>>

(* mutant: a refresh keeps the cursor *)
RefreshedCursor_keep(ti, mi) == <<ti, mi>>

RefreshedCursor(ti, mi) == <<0, 0>>

----------------------------------------------------------------------------
(* Exceptions and the handlers that catch them *)
ExceptionClasses == {"RuntimeError", "URLError", "OSError", "ValueError",
                     "AttributeError", "TypeError", "KeyError", "ZeroDivisionError"}

(* mutant: the handlers are written as "except RuntimeError" *)
IsException_narrow(exc) == exc = "RuntimeError"

(* mutant: the handlers are written as a bare "except:" *)
IsException_all(exc) == TRUE

IsException(exc) == exc \in ExceptionClasses

InRefreshTry(pos, site) == pos \in {"load", "fetch", "save"} /\ site = "loop"

(* mutant: the cycle delay is outside the try block *)
InRenderTry_renderOnly(pos) == pos = "render"

InRenderTry(pos) == pos \in {"render", "sleep"}

HandlerFor(pos, site, exc) ==
    IF InRefreshTry(pos, site) /\ IsException(exc) THEN "refresh"
    ELSE IF InRenderTry(pos) /\ IsException(exc) THEN "display"
    ELSE IF exc = "KeyboardInterrupt" THEN "interrupt"
    ELSE IF IsException(exc) THEN "fatal"
    ELSE "uncaught"

(* mutant: main forgets "return 1" *)
main_exit_zero(handler) == 0

main_exit(handler) == IF handler = "interrupt" THEN 0 ELSE 1

Raise(exc, ev) ==
    LET h == HandlerFor(pc, caller, exc) IN
    /\ event' = ev
    /\ pc' = IF h = "refresh" THEN "refresh_backoff"
             ELSE IF h = "display" THEN "display_backoff"
             ELSE "done"
    /\ lastMsg' = IF h = "refresh" THEN MsgRefreshError
                  ELSE IF h = "display" THEN MsgDisplayError
                  ELSE IF h = "interrupt" THEN MsgStopped
                  ELSE IF h = "fatal" THEN MsgFatal
                  ELSE lastMsg
    /\ sleeping' = IF h \in {"refresh", "display"} THEN BACKOFF ELSE 0
    /\ exitCode' = IF h \in {"refresh", "display"} THEN exitCode ELSE main_exit(h)

----------------------------------------------------------------------------
(* Fetch Orchestrator helpers *)
(* line 227: entry.get("name") or entry.get("theater") or entry.get("query") *)
theater_name(cfg) ==
    IF cfg.name # "" THEN cfg.name ELSE IF cfg.theater # "" THEN cfg.theater ELSE cfg.query

(* mutant: the location is not required *)
ValidTheater_nameOnly(cfg) == theater_name(cfg) # ""

ValidTheater(cfg) == theater_name(cfg) # "" /\ cfg.location # ""

(* mutant: the "error" field of the response is not looked at *)
raw_error_ignored(response) == FALSE

(* line 234: raw.get("error") *)
raw_error(response) == response.error

NoRaw == [error |-> FALSE, showtimes |-> JMissing]

DatasetEntry(cfg, showtimes) ==
    [theater_label |-> theater_name(cfg), location_label |-> cfg.location,
     showtimes |-> showtimes]

(* Datasets an earlier run of the program may have left in the cache file *)
EarlierEntries(th) ==
    LET valid == SelectSeq(th, ValidTheater)
        made(n) == [i \in 1..Len(valid) |->
                      DatasetEntry(valid[i],
                                   normalize_showtimes([error |-> FALSE,
                                                        showtimes |-> JList(<<RawDay(n)>>)]).val)]
    IN  { <<>>, made(0), made(1), made(2) }

InitCaches(th) ==
    {NoFile, Unparsable, NonObject}
    \cup { CacheDoc(d, e) : d \in 0..1, e \in EarlierEntries(th) }

----------------------------------------------------------------------------
Init ==
    /\ pc = "start"
    /\ caller = "startup"
    /\ today = 1
    /\ theaters \in Configs
    /\ cacheFile \in InitCaches(theaters)
    /\ today_str = -1
    /\ fresh = <<>>
    /\ fi = 0
    /\ raw = NoRaw
    /\ normalized = Ok(<<>>)
    /\ entries = <<>>
    /\ cache_date = -1
    /\ current_date = -1
    /\ theater_groups = <<>>
    /\ theater_idx = 0
    /\ movie_idx = 0
    /\ item = NoItem
    /\ lastMsg = ""
    /\ sleeping = 0
    /\ exitCode = -1
    /\ event = "init"
    /\ loopEntered = FALSE
    /\ everRendered = FALSE
    /\ iterRendered = FALSE
    /\ iterCursor = <<0, 0>>
    /\ shown = 0
    /\ clean = TRUE
    /\ fetchCalls = 0
    /\ fetchAllCalls = 0
    /\ fetchLog = <<>>
    /\ fetchedToday = FALSE

(* run_display lines 246-253: load_config and the derived settings *)
LoadConfig ==
    /\ pc = "start"
    /\ \/ /\ pc' = "load"
          /\ event' = "config_loaded"
          /\ UNCHANGED outVars
       \/ Raise("ValueError", "config_failed")
    /\ UNCHANGED <<caller, current_date, envVars, loadVars, dataVars, cursorVars, item, histVars>>

(* run_display lines 289-295: the statements after the startup load returns *)
StartupContinue(e, d) ==
    LET groups == group_movies_by_theater(e, d) IN
    /\ entries' = e
    /\ cache_date' = d
    /\ theater_groups' = groups
    /\ UNCHANGED <<cursorVars, sleeping>>
    /\ IF groups = <<>>
       THEN /\ lastMsg' = MsgNothing
            /\ pc' = "done"
            /\ exitCode' = 0
            /\ UNCHANGED loopEntered
       ELSE /\ pc' = "loop_top"
            /\ loopEntered' = TRUE
            /\ UNCHANGED <<lastMsg, exitCode>>

(* run_display lines 303-306 and 311-314: the statements after the load in the loop returns *)
LoopContinue(e, d) ==
    LET groups == group_movies_by_theater(e, d)
        cur == RefreshedCursor(theater_idx, movie_idx) IN
    /\ entries' = e
    /\ cache_date' = d
    /\ theater_groups' = groups
    /\ theater_idx' = cur[1]
    /\ movie_idx' = cur[2]
    /\ UNCHANGED <<exitCode, loopEntered>>
    /\ IF groups = <<>>
       THEN /\ lastMsg' = MsgEmptyRefresh
            /\ sleeping' = BACKOFF
            /\ pc' = "empty_backoff"
       ELSE /\ pc' = "resolve"
            /\ UNCHANGED <<lastMsg, sleeping>>

Return(e, d) ==
    /\ IF caller = "startup" THEN StartupContinue(e, d) ELSE LoopContinue(e, d)
    /\ shown' = 0
    /\ clean' = TRUE
    /\ UNCHANGED <<everRendered, iterRendered, iterCursor>>

(* load_entries_for_today lines 256-259 *)
LoadEntries ==
    /\ pc = "load"
    /\ today_str' = today
    /\ LET cached_local == load_cached(cacheFile) IN
       IF Truthy(cached_local) /\ ~HasGet(cached_local)
       THEN /\ Raise("AttributeError", "cache_read_failed")
            /\ UNCHANGED <<fresh, fi, dataVars, cursorVars, histVars>>
       ELSE IF CacheValid(cached_local, today)
       THEN /\ Return(cached_local.entries, cached_local.date)
            /\ event' = "cache_hit"
            /\ fetchCalls' = 0
            /\ fetchAllCalls' = 0
            /\ fetchLog' = <<>>
            /\ UNCHANGED <<fresh, fi, fetchedToday>>
       ELSE /\ pc' = "fetch"
            /\ event' = "fetch_all_called"
            /\ fresh' = <<>>
            /\ fi' = 1
            /\ fetchCalls' = 0
            /\ fetchAllCalls' = 1
            /\ fetchLog' = <<>>
            /\ UNCHANGED <<dataVars, cursorVars, outVars, loopEntered, everRendered,
                           iterRendered, iterCursor, shown, clean, fetchedToday>>
    /\ UNCHANGED <<caller, current_date, envVars, raw, normalized, item>>

(* fetch_all: an exception leaves the function, its locals are gone *)
FetchAllRaise(exc, ev) ==
    /\ Raise(exc, ev)
    /\ raw' = NoRaw
    /\ normalized' = Ok(<<>>)
    /\ UNCHANGED <<fresh, fi>>

(* fetch_all lines 226-241: one iteration of the loop over the configured theaters *)
FetchTheater ==
    /\ pc = "fetch"
    /\ fi <= Len(theaters)
    /\ IF ~ValidTheater(theaters[fi])
       THEN /\ lastMsg' = MsgSkip
            /\ fi' = fi + 1
            /\ event' = "theater_skipped"
            /\ UNCHANGED <<pc, fresh, raw, normalized, sleeping, exitCode, fetchCalls, fetchLog>>
       ELSE /\ fetchCalls' = fetchCalls + 1
            /\ fetchLog' = Append(fetchLog, <<theater_name(theaters[fi]), theaters[fi].location>>)
            /\ \/ \E exc \in {"RuntimeError", "URLError"} : FetchAllRaise(exc, "fetch_failed")
               \/ \E response \in RawPayloads :
                     IF raw_error(response)
                     THEN FetchAllRaise("RuntimeError", "fetch_failed")
                     ELSE LET n == normalize_showtimes(response) IN
                          IF n.exc # "none"
                          THEN FetchAllRaise(n.exc, "normalize_failed")
                          ELSE /\ raw' = response
                               /\ normalized' = n
                               /\ fresh' = Append(fresh, DatasetEntry(theaters[fi], n.val))
                               /\ fi' = fi + 1
                               /\ event' = "theater_fetched"
                               /\ UNCHANGED <<pc, outVars>>
    /\ UNCHANGED <<caller, current_date, envVars, today_str, dataVars, cursorVars, item,
                   loopEntered, everRendered, iterRendered, iterCursor, shown, clean,
                   fetchAllCalls, fetchedToday>>

(* fetch_all line 242: the loop is over, the list is returned to line 260 *)
FetchAllReturn ==
    /\ pc = "fetch"
    /\ fi > Len(theaters)
    /\ pc' = "save"
    /\ event' = "fetch_all_returned"
    /\ raw' = NoRaw
    /\ normalized' = Ok(<<>>)
    /\ fetchedToday' = (today_str = today)
    /\ UNCHANGED <<caller, current_date, envVars, today_str, fresh, fi, dataVars, cursorVars,
                   item, outVars, loopEntered, everRendered, iterRendered, iterCursor, shown,
                   clean, fetchCalls, fetchAllCalls, fetchLog>>

(* load_entries_for_today lines 261-262 with save_cached lines 216-221 *)
SaveAndReturn ==
    /\ pc = "save"
    /\ \/ /\ cacheFile' = CacheDoc(today_str, fresh)
          /\ Return(fresh, today_str)
          /\ event' = "fetched_and_saved"
       \/ /\ cacheFile' \in {cacheFile, Unparsable}
          /\ Raise("OSError", "save_failed")
          /\ UNCHANGED <<dataVars, cursorVars, loopEntered, everRendered, iterRendered,
                         iterCursor, shown, clean>>
    /\ UNCHANGED <<caller, current_date, today, theaters, loadVars, item, fetchHist>>

(* run_display lines 299-301: the date and cache check at the top of an iteration *)
LoopTop ==
    /\ pc = "loop_top"
    /\ iterCursor' = <<theater_idx, movie_idx>>
    /\ iterRendered' = FALSE
    /\ current_date' = today
    /\ LET cached == load_cached(cacheFile) IN
       IF Truthy(cached) /\ ~HasGet(cached)
       THEN /\ Raise("AttributeError", "cache_read_failed")
            /\ UNCHANGED caller
       ELSE IF ~CacheValid(cached, today)
       THEN /\ pc' = "load"
            /\ caller' = "loop"
            /\ event' = "refresh_needed"
            /\ UNCHANGED outVars
       ELSE /\ pc' = "resolve"
            /\ event' = "cache_current"
            /\ UNCHANGED <<caller, outVars>>
    /\ UNCHANGED <<envVars, loadVars, dataVars, cursorVars, item, loopEntered, everRendered,
                   shown, clean, fetchHist>>

(* run_display lines 317-320 *)
Resolve ==
    /\ pc = "resolve"
    /\ IF Len(theater_groups) = 0
       THEN /\ Raise("ZeroDivisionError", "resolve_failed")
            /\ UNCHANGED item
       ELSE IF Len(theater_groups[(theater_idx % Len(theater_groups)) + 1]) = 0
       THEN /\ Raise("ZeroDivisionError", "resolve_failed")
            /\ UNCHANGED item
       ELSE /\ item' = ResolveItem(theater_groups, theater_idx, movie_idx)
            /\ pc' = "render"
            /\ event' = "resolved"
            /\ UNCHANGED outVars
    /\ UNCHANGED <<caller, current_date, envVars, loadVars, dataVars, cursorVars, histVars>>

(* run_display line 323: format_single_movie_display, then line 324 starts the sleep *)
Render ==
    /\ pc = "render"
    /\ \/ /\ pc' = "sleep"
          /\ sleeping' = cycle_delay
          /\ event' = "rendered"
          /\ everRendered' = TRUE
          /\ iterRendered' = TRUE
          /\ shown' = IF clean THEN shown + 1 ELSE shown
          /\ UNCHANGED <<lastMsg, exitCode, clean>>
       \/ \E exc \in {"OSError", "ValueError"} :
             /\ Raise(exc, "render_failed")
             /\ clean' = FALSE
             /\ shown' = 0
             /\ UNCHANGED <<everRendered, iterRendered>>
    /\ UNCHANGED <<caller, current_date, envVars, loadVars, dataVars, cursorVars, item, loopEntered,
                   iterCursor, fetchHist>>

(* run_display lines 324-330: the cycle delay ends and the cursor advances *)
SleepAndAdvance ==
    /\ pc = "sleep"
    /\ \/ LET cur == NextCursor(theater_groups, theater_idx, movie_idx) IN
          /\ cur[1] <= MaxTheaterIdx
          /\ theater_idx' = cur[1]
          /\ movie_idx' = cur[2]
          /\ pc' = "loop_top"
          /\ sleeping' = 0
          /\ event' = "advanced"
          /\ UNCHANGED <<lastMsg, exitCode, clean, shown>>
       \/ /\ Raise("ValueError", "sleep_failed")
          /\ clean' = FALSE
          /\ shown' = 0
          /\ UNCHANGED cursorVars
    /\ UNCHANGED <<caller, current_date, envVars, loadVars, dataVars, item, loopEntered, everRendered,
                   iterRendered, iterCursor, fetchHist>>

(* run_display lines 309-310, 313-314, 333: the 5 second sleep ends, the loop continues *)
BackoffDone ==
    /\ pc \in {"refresh_backoff", "empty_backoff", "display_backoff"}
    /\ pc' = "loop_top"
    /\ sleeping' = 0
    /\ event' = "backoff_done"
    /\ UNCHANGED <<caller, current_date, envVars, loadVars, dataVars, cursorVars, item, lastMsg, exitCode,
                   histVars>>

(* Ctrl-C: KeyboardInterrupt is raised at the statement being executed *)
Interrupt ==
    /\ pc # "done"
    /\ Raise("KeyboardInterrupt", "interrupt")
    /\ UNCHANGED <<caller, current_date, envVars, loadVars, dataVars, cursorVars, item, histVars>>

(* The local date changes at midnight *)
Tick ==
    /\ pc # "done"
    /\ today < MaxDay
    /\ today' = today + 1
    /\ fetchedToday' = FALSE
    /\ UNCHANGED <<pc, caller, current_date, cacheFile, theaters, loadVars, dataVars, cursorVars, item,
                   outVars, event, loopEntered, everRendered, iterRendered, iterCursor, shown,
                   clean, fetchCalls, fetchAllCalls, fetchLog>>

Next ==
    \/ LoadConfig
    \/ LoadEntries
    \/ FetchTheater
    \/ FetchAllReturn
    \/ SaveAndReturn
    \/ LoopTop
    \/ Resolve
    \/ Render
    \/ SleepAndAdvance
    \/ BackoffDone
    \/ Interrupt
    \/ Tick

Spec == Init /\ [][Next]_vars

----------------------------------------------------------------------------
(* The normalizer on its own: normalize_showtimes applied to one payload *)
MaxBlocks == 3

TimeBlockShapes ==
    { JStr("9:00 PM"), JStr(""), JTimeBlock("7:30 PM", "IMAX"), JTimeBlock("8:15 PM", ""),
      JTimeBlock("", "3D"), JNum }

RECURSIVE BlockLists(_)
BlockLists(n) ==
    IF n = 0 THEN { <<>> }
    ELSE BlockLists(n - 1)
         \cup { Append(bs, b) : bs \in { s \in BlockLists(n - 1) : Len(s) = n - 1 },
                                b \in TimeBlockShapes }

(* Lists longer than the 8 entries that are kept: distinct times, every third one typed *)
LongBlockLists ==
    { [i \in 1..n |-> IF i % 3 = 0 THEN JTimeBlock("T" \o ToString(i), "3D")
                      ELSE JStr("T" \o ToString(i))] : n \in (MAX_TIMES - 1)..(MAX_TIMES + 2) }

PayloadOf(showtimes) == [error |-> FALSE, showtimes |-> showtimes]

OneMovie(time_blocks) == PayloadOf(JList(<<JTheater("api", "1 Main St", JList(<<JMovie("T", time_blocks)>>))>>))

NormPayloads ==
    { OneMovie(JList(bs)) : bs \in BlockLists(MaxBlocks) \cup LongBlockLists }
    \cup { OneMovie(v) : v \in {JMissing, JNum, JStr("7:30 PM"), JTimeBlock("7:30 PM", "")} }
    \cup { PayloadOf(v) : v \in {JMissing, JNum, JStr("abc"), JTimeBlock("7:30 PM", ""),
                                 JList(<<>>), JList(<<JNum>>), JList(<<JStr("abc")>>)} }
    \cup { PayloadOf(JList(<<JTheater("", "", v)>>)) :
              v \in {JMissing, JNum, JStr("abc"), JMovie("T", JMissing), JList(<<>>),
                     JList(<<JStr("abc")>>), JList(<<JNum>>),
                     JList(<<JMovie("", JMissing), JMovie("U", JList(<<JStr("1:00 PM")>>))>>),
                     JList(<<JList(<<RawMovie(1)>>), JList(<<RawMovie(2)>>)>>)} }

NormInit ==
    /\ pc = "norm_call"
    /\ raw \in NormPayloads
    /\ normalized = Ok(<<>>)
    /\ event = "init"
    /\ caller = "startup"
    /\ today = 1
    /\ theaters = <<TheaterA>>
    /\ cacheFile = NoFile
    /\ today_str = -1
    /\ fresh = <<>>
    /\ fi = 0
    /\ entries = <<>>
    /\ cache_date = -1
    /\ current_date = -1
    /\ theater_groups = <<>>
    /\ theater_idx = 0
    /\ movie_idx = 0
    /\ item = NoItem
    /\ lastMsg = ""
    /\ sleeping = 0
    /\ exitCode = -1
    /\ loopEntered = FALSE
    /\ everRendered = FALSE
    /\ iterRendered = FALSE
    /\ iterCursor = <<0, 0>>
    /\ shown = 0
    /\ clean = TRUE
    /\ fetchCalls = 0
    /\ fetchAllCalls = 0
    /\ fetchLog = <<>>
    /\ fetchedToday = FALSE

(* fetch_all line 236: normalized = normalize_showtimes(raw), returning or raising *)
NormalizeCall ==
    /\ pc = "norm_call"
    /\ normalized' = normalize_showtimes(raw)
    /\ pc' = "norm_done"
    /\ event' = IF normalize_showtimes(raw).exc = "none" THEN "normalized" ELSE "normalize_failed"
    /\ UNCHANGED <<caller, envVars, today_str, fresh, fi, raw, dataVars, current_date, cursorVars,
                   item, outVars, histVars>>

NormNext == NormalizeCall

NormSpec == NormInit /\ [][NormNext]_vars

----------------------------------------------------------------------------

(* Claims *)

(* C1: once the loop has been entered, the only way the process ends is an
   external interrupt, with exit code 0; every failure is absorbed by a
   message and a backoff. *)
C1_OnlyInterruptEndsLoop ==
    (loopEntered /\ pc = "done") => (event = "interrupt" /\ exitCode = 0)

(* C2: while the in-memory group list is empty the resolve step
   (theater_idx mod groupCount) and the render step are never executed. *)
C2_NoResolveWhileEmpty ==
    (loopEntered /\ theater_groups = <<>>) =>
        (pc \notin {"resolve", "render", "sleep"} /\ event # "resolve_failed")

(* The order in which one cycle visits the items: group 0 items in order, then group 1, ... *)
RotationOrder(groups) == Concat(groups)

(* C3: from cursor (0,0), without refresh or render failure, the k-th render
   shows item ((k-1) mod total) of the group-by-group enumeration, so the
   rendered sequence is periodic with cycle length the sum of the sizes. *)
C3_RotationOrder ==
    (pc = "sleep" /\ clean) =>
        /\ shown >= 1
        /\ item = RotationOrder(theater_groups)
                     [((shown - 1) % Len(RotationOrder(theater_groups))) + 1]

C3_Witness ==
    /\ pc = "sleep" /\ clean /\ shown = 6
    /\ Len(theater_groups) = 2
    /\ Len(theater_groups[1]) = 2 /\ Len(theater_groups[2]) = 3
    /\ theater_idx = 2 /\ movie_idx = 0
    /\ item = theater_groups[1][1]

C4_CacheFresh == cacheFile.kind = "doc" /\ cacheFile.date = today

C4_Reloaded == caller = "loop" /\ event \in {"cache_hit", "fetched_and_saved"}

(* C4: every iteration starts by comparing the current date with the cache
   document's date and reloads exactly when no document of that date exists;
   after a reload that yields a group, the groups are those of the newly
   loaded entries, the cursor is (0,0) and the item resolved for rendering is
   group 0 item 0 of the new data. *)
C4_RolloverReload ==
    /\ [][(pc = "loop_top" /\ pc' \notin {"loop_top", "done"}) =>
            ((pc' = "load" /\ caller' = "loop") <=> ~C4_CacheFresh)]_vars
    /\ []((C4_Reloaded /\ pc = "resolve") =>
            /\ theater_idx = 0 /\ movie_idx = 0
            /\ entries = cacheFile.entries /\ cache_date = cacheFile.date
            /\ cache_date = today_str
            /\ theater_groups = group_movies_by_theater(entries, cache_date))
    /\ [][(C4_Reloaded /\ pc = "resolve" /\ pc' = "render") =>
            (item' = theater_groups[1][1] /\ item'.now_str = today_str
             /\ theater_idx' = 0 /\ movie_idx' = 0)]_vars

C4_Witness ==
    /\ pc = "sleep" /\ caller = "loop" /\ clean /\ shown = 1
    /\ iterCursor # <<0, 0>> /\ theater_idx = 0 /\ movie_idx = 0
    /\ cache_date = 2 /\ item = theater_groups[1][1] /\ item.now_str = 2

(* C5: a fetch failure during the refresh in the loop is reported, followed by
   a 5 second wait and the next iteration; the cursor is the one the iteration
   started with, nothing was rendered in the iteration, the process runs on. *)
C5_RefreshFailure ==
    /\ []((event = "fetch_failed" /\ caller = "loop") =>
            /\ pc = "refresh_backoff"
            /\ lastMsg = MsgRefreshError
            /\ sleeping = 5
            /\ <<theater_idx, movie_idx>> = iterCursor
            /\ ~iterRendered
            /\ exitCode = -1)
    /\ [][(pc = "refresh_backoff" /\ pc' # pc /\ event' # "interrupt") =>
            (pc' = "loop_top" /\ exitCode' = -1
             /\ theater_idx' = theater_idx /\ movie_idx' = movie_idx)]_vars

C5_Witness ==
    /\ event = "fetch_failed" /\ caller = "loop" /\ pc = "refresh_backoff"
    /\ iterCursor # <<0, 0>> /\ theater_idx = iterCursor[1] /\ movie_idx = iterCursor[2]

(* C6: load_entries_for_today returns the cached entries without any fetch
   when the cache document carries the date it read; otherwise it calls
   fetch_all once, saves the result under that date and returns it; after a
   successful call the cache file holds a document of that date with the
   returned entries. *)
C6_LoadPolicy ==
    /\ [][(pc = "load" /\ pc' # "load" /\ event' # "interrupt" /\ cacheFile.kind # "nonobject") =>
            IF cacheFile.kind = "doc" /\ cacheFile.date = today
            THEN /\ event' = "cache_hit"
                 /\ entries' = cacheFile.entries /\ cache_date' = cacheFile.date
                 /\ fetchCalls' = 0 /\ fetchAllCalls' = 0
                 /\ cacheFile' = cacheFile
            ELSE /\ pc' = "fetch" /\ fetchAllCalls' = 1 /\ today_str' = today
                 /\ entries' = entries]_vars
    /\ [][(pc = "save" /\ event' = "fetched_and_saved") =>
            /\ fetchAllCalls' = 1
            /\ cacheFile' = [kind |-> "doc", date |-> today_str, entries |-> fresh]
            /\ entries' = fresh /\ cache_date' = today_str]_vars
    /\ [](event \in {"cache_hit", "fetched_and_saved"} =>
            /\ cacheFile.kind = "doc" /\ cacheFile.date = today_str
            /\ cacheFile.entries = entries /\ cache_date = today_str
            /\ (event = "cache_hit" => fetchCalls = 0 /\ fetchAllCalls = 0)
            /\ (event = "fetched_and_saved" => fetchAllCalls = 1))

C6_Witness ==
    /\ event = "fetched_and_saved" /\ caller = "loop" /\ today_str = 2
    /\ cacheFile.kind = "doc" /\ cacheFile.date = 2 /\ Len(entries) = 2
    /\ fetchAllCalls = 1 /\ fetchCalls = 2

(* C7: an exception raised by the render or by the cycle-delay sleep is caught
   in the loop, reported, followed by a 5 second wait and the next iteration;
   the process stays alive unless it is interrupted. *)
C7_DisplayFailure ==
    /\ []((event \in {"render_failed", "sleep_failed"}) =>
            /\ pc = "display_backoff"
            /\ lastMsg = MsgDisplayError
            /\ sleeping = 5
            /\ exitCode = -1)
    /\ [][(pc = "display_backoff" /\ pc' # pc) =>
            \/ (pc' = "loop_top" /\ exitCode' = -1)
            \/ (event' = "interrupt" /\ pc' = "done" /\ exitCode' = 0)]_vars

C7_Witness ==
    event = "sleep_failed" /\ pc = "display_backoff" /\ iterRendered /\ sleeping = 5

(* The entries hold no movie at all *)
C8_NoMovies(es) ==
    \A i \in 1..Len(es) : \A t \in 1..Len(es[i].showtimes) : Len(es[i].showtimes[t].movies) = 0

(* C8: when the startup load succeeds with entries that hold no movie, the
   program reports that there is nothing to display and ends with exit code 0
   without entering the loop or rendering anything. *)
C8_StartupNothingToDisplay ==
    (caller = "startup" /\ event \in {"cache_hit", "fetched_and_saved"} /\ C8_NoMovies(entries)) =>
        /\ pc = "done"
        /\ exitCode = 0
        /\ lastMsg = MsgNothing
        /\ ~loopEntered
        /\ ~everRendered

C8_Witness ==
    /\ caller = "startup" /\ event = "fetched_and_saved"
    /\ Len(theaters) = 1 /\ Len(entries) = 1 /\ entries[1].showtimes = <<>>
    /\ pc = "done" /\ exitCode = 0 /\ lastMsg = MsgNothing

(* C9: a fetch failure during the startup load is reported and the process
   ends with a non-zero exit code; it is never left waiting without output. *)
C9_StartupFetchFailure ==
    (caller = "startup" /\ event = "fetch_failed") =>
        /\ pc = "done"
        /\ exitCode = 1
        /\ lastMsg = MsgFatal

C9_Witness ==
    /\ caller = "startup" /\ event = "fetch_failed" /\ cacheFile = NoFile
    /\ fetchCalls = 1 /\ pc = "done" /\ exitCode = 1

(* C10: an interrupt delivered at any position is not caught by the handlers
   of the loop: the process prints the stopped-by-user message and ends with
   exit code 0. *)
C10_InterruptUnwinds ==
    /\ [](event = "interrupt" => (pc = "done" /\ exitCode = 0 /\ lastMsg = MsgStopped))
    /\ [][(pc # "done" /\ event' = "interrupt") => pc' = "done"]_vars
    /\ [](pc # "done" => ENABLED Interrupt)

C10_Witness ==
    event = "interrupt" /\ pc = "done" /\ exitCode = 0 /\ caller = "loop" /\ sleeping = 0
    /\ iterRendered /\ lastMsg = MsgStopped

(* A cache file that load_entries_for_today / the rollover check cannot use *)
C11_Unusable(file, date) == ~(file.kind = "doc" /\ file.date = date)

(* C11: whatever the cache file contains, reading it never propagates an
   error: a document that is not an object dated today is treated like an
   absent cache, in load_entries_for_today (it goes on to fetch_all) and in
   the loop's rollover check (it goes on to the refresh). *)
C11_CacheReadDegrades ==
    [][ (C11_Unusable(cacheFile, today) /\ today' = today /\ event' # "interrupt") =>
           /\ (pc = "load" => (pc' = "fetch" /\ event' = "fetch_all_called"))
           /\ (pc = "loop_top" => (pc' = "load" /\ event' = "refresh_needed")) ]_vars

(* The configured theater query string of an entry, "" if none of its keys has one *)
C12_Query(cfg) ==
    CASE cfg.name # "" -> cfg.name
      [] cfg.name = "" /\ cfg.theater # "" -> cfg.theater
      [] OTHER -> cfg.query

(* The entries among the first n configured that have a query string and a location *)
C12_Usable(th, n) ==
    SelectSeq(SubSeq(th, 1, n), LAMBDA c : C12_Query(c) # "" /\ c.location # "")

C12_Calls(th, n) ==
    [i \in 1..Len(C12_Usable(th, n)) |-> <<C12_Query(C12_Usable(th, n)[i]), C12_Usable(th, n)[i].location>>]

C12_Labels(es) == [i \in 1..Len(es) |-> <<es[i].theater_label, es[i].location_label>>]

(* C12: fetch_all skips an entry without a theater query string or location
   with a notice and goes on; fetch_showtimes is called exactly once per valid
   entry, in configuration order; the returned list has exactly one entry per
   valid configuration entry, in order, labelled with the configured values. *)
C12_FetchAll ==
    /\ (event = "theater_skipped" =>
           /\ pc = "fetch" /\ lastMsg = MsgSkip /\ exitCode = -1
           /\ C12_Usable(theaters, fi - 1) = C12_Usable(theaters, fi - 2))
    /\ (pc = "fetch" =>
           /\ fetchLog = C12_Calls(theaters, fi - 1)
           /\ fetchCalls = Len(fetchLog)
           /\ C12_Labels(fresh) = fetchLog)
    /\ (event \in {"fetch_failed", "normalize_failed"} =>
           /\ fetchLog = C12_Calls(theaters, fi)
           /\ fetchCalls = Len(fetchLog))
    /\ (pc = "save" =>
           /\ fetchLog = C12_Calls(theaters, Len(theaters))
           /\ fetchCalls = Len(fetchLog)
           /\ C12_Labels(fresh) = fetchLog)

C12_Witness ==
    /\ pc = "save"
    /\ theaters = <<TheaterA, TheaterBad, TheaterB>>
    /\ fetchLog = << <<"A", "X">>, <<"B", "Y">> >>
    /\ Len(fresh) = 2 /\ fresh[2].theater_label = "B" /\ fresh[2].location_label = "Y"

(* The movies of one entry, in normalizer order *)
C13_Movies(entry) == Concat([t \in 1..Len(entry.showtimes) |-> entry.showtimes[t].movies])

(* The positions of the entries that hold at least one movie, ascending *)
C13_WithMovies(es) == SelectSeq([i \in 1..Len(es) |-> i], LAMBDA i : Len(C13_Movies(es[i])) >= 1)

(* C13: the group list is, in entry order, exactly one group per entry that
   has at least one movie and none for an entry with zero movies; every group
   has length >= 1 and lists its entry's movies in normalizer order, so the
   rotation never holds an empty group. *)
C13_GroupShape ==
    LET src == C13_WithMovies(entries) IN
    /\ Len(theater_groups) = Len(src)
    /\ \A g \in 1..Len(theater_groups) :
          LET ms == C13_Movies(entries[src[g]]) IN
          /\ Len(theater_groups[g]) >= 1
          /\ Len(theater_groups[g]) = Len(ms)
          /\ \A m \in 1..Len(ms) :
                /\ theater_groups[g][m].title = ms[m].title
                /\ theater_groups[g][m].times = ms[m].times
                /\ theater_groups[g][m].theater_label = entries[src[g]].theater_label
                /\ theater_groups[g][m].location_label = entries[src[g]].location_label
                /\ theater_groups[g][m].now_str = cache_date

C13_Witness ==
    /\ Len(entries) = 2
    /\ Len(C13_Movies(entries[1])) = 0 /\ Len(C13_Movies(entries[2])) = MaxMovies
    /\ Len(theater_groups) = 1
    /\ theater_groups[1][MaxMovies].title = C13_Movies(entries[2])[MaxMovies].title
    /\ theater_groups[1][1].theater_label = "B"
    /\ pc = "resolve"

(* The payload has the documented shape: a list of theater objects whose
   movies are objects with a list of time entries *)
C14_TimeBlocksOf(payload) ==
    LET movies == payload.showtimes.items[1].movies.items IN
    [m \in 1..Len(movies) |-> movies[m].showtimes.items]

C14_WellShaped(payload) ==
    /\ payload.showtimes.k = "list" /\ payload.showtimes.items # <<>>
    /\ payload.showtimes.items[1].k = "dict"
    /\ payload.showtimes.items[1].movies.k = "list"
    /\ payload.showtimes.items[1].movies.items # <<>>
    /\ \A m \in DOMAIN payload.showtimes.items[1].movies.items :
          LET movie == payload.showtimes.items[1].movies.items[m] IN
          movie.k = "dict" /\ movie.showtimes.k = "list"

(* The display string a time entry contributes according to the rule: none when
   its time value is empty *)
C14_Display(tb) ==
    CASE tb.k = "dict" /\ tb.time # "" /\ tb.type # "" -> << tb.time \o " (" \o tb.type \o ")" >>
      [] tb.k = "dict" /\ tb.time # "" /\ tb.type = "" -> << tb.time >>
      [] tb.k = "str" /\ tb.s # "" -> << tb.s >>
      [] OTHER -> <<>>

(* C14: the times of every normalized movie are, in input order, the display
   strings of the time entries with a non-empty time value (structured or
   plain string), entries with an empty time value skipped, truncated to the
   first 8; so every time string is non-empty and no movie has more than 8. *)
C14_TimesRule ==
    (pc = "norm_done" /\ C14_WellShaped(raw) /\ normalized.exc = "none") =>
        LET blocks == C14_TimeBlocksOf(raw)
            out == normalized.val[1].movies IN
        /\ Len(out) = Len(blocks)
        /\ \A m \in 1..Len(out) :
              /\ out[m].times = Take(Flatten([i \in 1..Len(blocks[m]) |-> C14_Display(blocks[m][i])]),
                                     MAX_TIMES)
              /\ Len(out[m].times) <= MAX_TIMES
              /\ \A i \in 1..Len(out[m].times) : out[m].times[i] # ""

(* C15: normalize_showtimes never raises, whatever the payload: missing or
   wrong-typed showtimes, theater entry, movies, movie or time-block values
   give a (possibly empty) list with defaults. *)
C15_NeverRaises ==
    pc = "norm_done" => (normalized.exc = "none" /\ event = "normalized")

(* An item is being rendered, or has been, in the current iteration of the loop *)
C16_Rendering == pc = "render" \/ (pc = "sleep" /\ event = "rendered")

(* C16 as stated: in every iteration that renders an item, the date stamp of
   the in-memory dataset equals the local date read at the start of that
   iteration. *)
C16_StampIsIterationDate ==
    C16_Rendering => cache_date = current_date

(* C16: stale data is never displayed.  In every iteration that renders an
   item the date stamp of the in-memory dataset is not older than the date read
   at the start of the iteration: it is that date, or, when the date changed
   before the refresh of this iteration read the date itself, the date the
   refresh read.  The rendered item carries the stamp and the cache file holds
   exactly the dataset in memory; while a refresh fails after a rollover,
   nothing is rendered. *)
C16_NoStaleRender ==
    /\ C16_Rendering =>
          /\ cache_date >= current_date
          /\ cache_date = current_date \/ (cache_date = today_str /\ caller = "loop")
          /\ cache_date <= today
          /\ item.now_str = cache_date
          /\ cacheFile = CacheDoc(cache_date, entries)
          /\ theater_groups = group_movies_by_theater(entries, cache_date)
    /\ (pc \in {"refresh_backoff", "empty_backoff"} => ~iterRendered)
    /\ (loopEntered /\ pc \in {"resolve", "render", "sleep"}
          => (cacheFile.kind = "doc" /\ cacheFile.date >= current_date))

C16_Witness ==
    /\ pc = "render" /\ caller = "loop"
    /\ current_date = 2 /\ today_str = 3 /\ cache_date = 3
    /\ item.now_str = 3 /\ everRendered

(* The group the resolve step selects: theater_idx modulo the number of groups *)
C17_Selected == theater_groups[(theater_idx % Len(theater_groups)) + 1]

(* C17: whenever the loop resolves the current item with a non-empty group
   list, movie_idx is already in range of the selected group, so the modulo
   leaves it unchanged; theater_idx only grows, except that a refresh resets
   it to 0. *)
C17_MovieIdxInRange ==
    /\ []((pc = "resolve" /\ theater_groups # <<>>) =>
            /\ theater_idx >= 0
            /\ 0 <= movie_idx /\ movie_idx < Len(C17_Selected)
            /\ movie_idx % Len(C17_Selected) = movie_idx)
    /\ [][theater_idx' < theater_idx =>
            (theater_idx' = 0 /\ movie_idx' = 0 /\ caller = "loop"
             /\ event' \in {"fetched_and_saved", "cache_hit"})]_vars

C17_Witness ==
    /\ pc = "resolve" /\ Len(theater_groups) = 2
    /\ theater_idx = 2 /\ movie_idx = 1
    /\ Len(C17_Selected) >= 2 /\ C17_Selected = theater_groups[1]

(* The step in which a fetch_showtimes call fails or returns an error field *)
C18_FetchFails == pc = "fetch" /\ event' = "fetch_failed"

(* C18: fetch_all is all-or-nothing.  When the fetch for a theater fails or
   its response has a top-level error field, fetch_all fails as a whole: the
   partial list is dropped, no further theater is fetched, save_cached is not
   called (the cache file is unchanged) and the entries, date stamp, groups
   and cursor of the loop are unchanged. *)
C18_AllOrNothing ==
    /\ [][C18_FetchFails =>
            /\ pc' \in {"refresh_backoff", "done"}
            /\ (pc' = "refresh_backoff" <=> caller = "loop")
            /\ cacheFile' = cacheFile
            /\ UNCHANGED <<dataVars, cursorVars>>
            /\ fresh' = fresh
            /\ fetchCalls' = fetchCalls + 1]_vars
    /\ [][(pc = "fetch" /\ event' = "theater_fetched" /\ fi' = fi + 1) => ~raw'.error]_vars
    /\ [][pc = "fetch" => (cacheFile' = cacheFile /\ UNCHANGED dataVars)]_vars
    /\ [][event = "fetch_failed" =>
            (fetchCalls' = fetchCalls /\ cacheFile' = cacheFile /\ UNCHANGED dataVars
             /\ pc' \notin {"fetch", "save"})]_vars

C18_Witness ==
    /\ event = "fetch_failed" /\ caller = "loop" /\ pc = "refresh_backoff"
    /\ theaters = <<TheaterA, TheaterBad, TheaterB>>
    /\ Len(fresh) = 1 /\ fetchCalls = 2
    /\ cacheFile = CacheDoc(cache_date, entries) /\ cache_date < today_str
    /\ Len(entries) = 2 /\ theater_groups # <<>>

(* A step that calls fetch_showtimes *)
C19_FetchCall == pc = "fetch" /\ fetchCalls' = fetchCalls + 1

(* The cache file holds a document saved for the current date *)
C19_SavedToday == cacheFile.kind = "doc" /\ cacheFile.date = today

(* C19 as stated: once a fetch_all has returned for date D, fetch_showtimes
   is not called again while the local date remains D. *)
C19_NoRefetchSameDay ==
    [][(fetchedToday /\ today' = today) => ~C19_FetchCall]_vars

(* C19: once the result of a fetch_all has been saved for date D,
   fetch_showtimes is not called again while the local date remains D: every
   later iteration on D finds the cache valid and goes on to resolve without a
   refresh, and no second result is saved for D.  (A fetch_all whose save
   fails is repeated on the same date.) *)
C19_SavedDayNoFetch ==
    /\ [][(C19_SavedToday /\ today' = today) => ~C19_FetchCall]_vars
    /\ [][(C19_SavedToday /\ today' = today /\ pc = "loop_top" /\ event' # "interrupt") =>
            (pc' = "resolve" /\ event' = "cache_current" /\ UNCHANGED fetchHist)]_vars
    /\ [][(pc = "save" /\ event' = "fetched_and_saved") =>
            (~(cacheFile.kind = "doc" /\ cacheFile.date = today_str)
             /\ cacheFile' = CacheDoc(today_str, fresh))]_vars

C19_Witness ==
    /\ pc = "resolve" /\ event = "cache_current" /\ caller = "loop"
    /\ fetchedToday /\ today = 2 /\ cacheFile.kind = "doc" /\ cacheFile.date = 2
    /\ fetchCalls = 2 /\ everRendered /\ theater_idx = 1

(* The step in which rendering or the cycle delay raises *)
C20_DisplayFails == pc \in {"render", "sleep"} /\ event' \in {"render_failed", "sleep_failed"}

(* The iteration that starts follows one that ended in the display handler *)
C20_AfterDisplayFailure == pc = "loop_top" /\ event = "backoff_done" /\ lastMsg = MsgDisplayError

(* The cursor moves by exactly one position of the rotation *)
C20_OneStep ==
    LET size == Len(theater_groups[(theater_idx % Len(theater_groups)) + 1]) IN
    \/ movie_idx + 1 < size /\ theater_idx' = theater_idx /\ movie_idx' = movie_idx + 1
    \/ movie_idx + 1 = size /\ theater_idx' = theater_idx + 1 /\ movie_idx' = 0

(* C20: a failure while rendering or during the cycle delay leaves the cursor
   and the group list unchanged, so the next iteration on the same date
   selects the same item again; the cursor advances, by exactly one position,
   only after a render and its cycle delay have both completed without error
   (otherwise it changes only when a refresh resets it). *)
C20_FailureKeepsCursor ==
    /\ [][C20_DisplayFails =>
            (pc' = "display_backoff" /\ UNCHANGED <<cursorVars, dataVars, item, cacheFile>>)]_vars
    /\ [](C20_AfterDisplayFailure =>
            /\ theater_groups # <<>>
            /\ item = ResolveItem(theater_groups, theater_idx, movie_idx))
    /\ [][(C20_AfterDisplayFailure /\ pc' = "resolve") =>
            (event' = "cache_current" /\ UNCHANGED <<cursorVars, dataVars, item>>)]_vars
    /\ [][(pc = "resolve" /\ event = "cache_current" /\ pc' = "render"
           /\ item = ResolveItem(theater_groups, theater_idx, movie_idx)) =>
            (item' = item /\ UNCHANGED <<cursorVars, dataVars>>)]_vars
    /\ [][<<theater_idx, movie_idx>>' # <<theater_idx, movie_idx>> =>
            \/ /\ pc = "sleep" /\ event = "rendered" /\ iterRendered
               /\ event' = "advanced" /\ C20_OneStep
            \/ /\ caller = "loop" /\ event' \in {"fetched_and_saved", "cache_hit"}
               /\ theater_idx' = 0 /\ movie_idx' = 0]_vars

C20_Witness ==
    /\ C20_AfterDisplayFailure
    /\ Len(theater_groups) = 2 /\ theater_idx = 1 /\ movie_idx = 1
    /\ item = theater_groups[2][2] /\ iterCursor = <<1, 1>>

====
